---------------------------- MODULE Spec2Model ----------------------------
(***************************************************************************)
(* Model of vulkano's framebuffer/framebuffer.rs: the attachment list      *)
(* (EmptyAttachmentsList / List<A, R>), the tuple conversion               *)
(* IntoAttachmentsList, Framebuffer::new, the accessors, add_transition    *)
(* and Drop for Framebuffer.                                               *)
(*                                                                         *)
(* Spec: the life of a framebuffer.  One Arc<Framebuffer> allocation is    *)
(* alive at a time; after its last reference is dropped Framebuffer::new   *)
(* may be called again.  The external collaborators (render pass           *)
(* descriptor check, device limits, native CreateFramebuffer) are inputs   *)
(* drawn from small sets.                                                  *)
(* ListSpec: the AttachmentsList methods as pure functions of a tuple of   *)
(* attachment resources drawn in the initial state.                        *)
(***************************************************************************)
EXTENDS Integers, Sequences, FiniteSets

VARIABLES
    fb,           \* the Arc<Framebuffer> allocation: None or Some(Framebuffer)
    strong,       \* strong count of the Arc<Framebuffer>
    userDevice,   \* the caller still holds its own Arc<Device>
    userRp,       \* the caller still holds its own Arc<RenderPass>
    rpStrong,     \* strong count of the Arc<RenderPass>
    deviceStrong, \* strong count of the Arc<Device>; the device lives while > 0
    calls,        \* number of Framebuffer::new calls made
    args,         \* the arguments and collaborator outcomes of the latest new
    ret,          \* what the latest new returned
    trace,        \* the collaborator calls the latest new made, in order
    infos,        \* the vk::FramebufferCreateInfo of the latest new, if built
    native,       \* every vk.CreateFramebuffer / vk.DestroyFramebuffer so far
    sink,         \* the CommandsListSink: the transition records appended
    sinkCalls,    \* number of add_transition calls on the sink
    lastRead,     \* the latest accessor / list method called and its result
    tuple,        \* ListSpec: the tuple of attachment resources
    alist         \* ListSpec: into_attachments_list(tuple) once converted

vars == << fb, strong, userDevice, userRp, rpStrong, deviceStrong, calls, args,
           ret, trace, infos, native, sink, sinkCalls, lastRead, tuple, alist >>

fbVars == << fb, strong, userDevice, userRp, rpStrong, deviceStrong, calls, args,
             ret, trace, infos, native >>

listVars == << tuple, alist >>

(* ------------------------------ bounds -------------------------------- *)

\* Largest tuple arity explored by ListSpec (the macro at line 394 supports 26).
MaxAttachments == 3

\* Number of calls of Framebuffer::new explored in one behaviour.
MaxCalls == 2

\* Largest number of live Arc<Framebuffer> references.
MaxRefs == 2

\* Largest number of add_transition calls on one sink.
MaxTransitionCalls == 2

(* --------------------------- input domains ---------------------------- *)

\* Parent images: width, height, depth, array_layers.
Images ==
    [ imgA |-> [width |-> 2, height |-> 2, depth |-> 1, array_layers |-> 1],
      imgB |-> [width |-> 1, height |-> 3, depth |-> 1, array_layers |-> 2],
      imgC |-> [width |-> 3, height |-> 1, depth |-> 1, array_layers |-> 2] ]

\* Image views: the native vk::ImageView handle and the parent image.
ViewA == [handle |-> 11, parent |-> "imgA"]

ViewB == [handle |-> 12, parent |-> "imgB"]

ViewC == [handle |-> 13, parent |-> "imgC"]

Views == { ViewA, ViewB, ViewC }

RECURSIVE TuplesUpTo(_)
TuplesUpTo(n) ==
    IF n = 0 THEN { <<>> }
    ELSE LET shorter == TuplesUpTo(n - 1)
         IN  shorter \cup { Append(t, v) : t \in { s \in shorter : Len(s) = n - 1 },
                                           v \in Views }

\* The tuples of attachment resources a caller may convert (ListSpec).
AttachmentTuples == TuplesUpTo(MaxAttachments)

\* The tuples of attachment resources passed to Framebuffer::new (Spec).
NewAttachmentTuples == { << >>, << ViewA >>, << ViewB >>, << ViewC, ViewA >> }

\* The device limits queried at lines 72-74: max_framebuffer_width,
\* max_framebuffer_height, max_framebuffer_layers of the physical device.
Limits == << 2, 1, 1 >>

\* Requested dimensions: every axis from 0 to one more than its limit.
DimensionsInputs ==
    { << w, h, l >> : w \in 0 .. (Limits[1] + 1),
                      h \in 0 .. (Limits[2] + 1),
                      l \in 0 .. (Limits[3] + 1) }

\* enum FramebufferCreationError, lines 399-408.
FramebufferCreationError ==
    { [kind |-> "OomError", cause |-> "OutOfHostMemory"],
      [kind |-> "OomError", cause |-> "OutOfDeviceMemory"],
      [kind |-> "DimensionsTooLarge"],
      [kind |-> "AttachmentNotIdentitySwizzled"],
      [kind |-> "AttachmentTooSmall"] }

DimensionsTooLarge == [kind |-> "DimensionsTooLarge"]

AttachmentTooSmall == [kind |-> "AttachmentTooSmall"]

\* Outcomes of render_pass.desc().check_attachments_list (line 66): Ok, or
\* an error about the attachments, which try! returns to the caller.
CheckOutcomes ==
    { [tag |-> "Ok"] } \cup
    { [tag |-> "Err", err |-> e] :
        e \in { [kind |-> "AttachmentNotIdentitySwizzled"], AttachmentTooSmall } }

\* Outcomes of vk.CreateFramebuffer (line 121).
CreateOutcomes == { "Success", "OutOfHostMemory", "OutOfDeviceMemory" }

(* -------------------------- attachment lists -------------------------- *)

None == [tag |-> "None"]

Some(x) == [tag |-> "Some", val |-> x]

Min(a, b) == IF a <= b THEN a ELSE b

EmptyAttachmentsList == [tag |-> "EmptyAttachmentsList"]

List(first, rest) == [tag |-> "List", first |-> first, rest |-> rest]

\* impl IntoAttachmentsList for () and for the tuples of the macro.
RECURSIVE into_attachments_list(_)
into_attachments_list(t) ==
    IF Len(t) = 0 THEN EmptyAttachmentsList
    ELSE IF Len(t) = 1 THEN List(t[1], EmptyAttachmentsList)
    ELSE List(Head(t), into_attachments_list(Tail(t)))

\* A plausible slip: the recursion result inserted before/after the wrong end.
RECURSIVE raw_image_view_handles_Appended(_)
raw_image_view_handles_Appended(l) ==
    IF l.tag = "EmptyAttachmentsList" THEN << >>
    ELSE LET list == raw_image_view_handles_Appended(l.rest)
         IN  Append(list, l.first.handle)

RECURSIVE raw_image_view_handles(_)
raw_image_view_handles(l) ==
    IF l.tag = "EmptyAttachmentsList" THEN << >>
    ELSE LET list == raw_image_view_handles(l.rest)
         IN  << l.first.handle >> \o list

\* A plausible slip: the height axis folded with the width of the rest.
RECURSIVE min_dimensions_MixedAxes(_)
min_dimensions_MixedAxes(l) ==
    IF l.tag = "EmptyAttachmentsList" THEN None
    ELSE LET d == Images[l.first.parent]
             my_view_dims == << d.width, d.height, d.array_layers >>
             r == min_dimensions_MixedAxes(l.rest)
         IN  IF r.tag = "Some"
             THEN Some(<< Min(r.val[1], my_view_dims[1]),
                          Min(r.val[1], my_view_dims[2]),
                          Min(r.val[3], my_view_dims[3]) >>)
             ELSE Some(my_view_dims)

RECURSIVE min_dimensions(_)
min_dimensions(l) ==
    IF l.tag = "EmptyAttachmentsList" THEN None
    ELSE LET d == Images[l.first.parent]
             my_view_dims == << d.width, d.height, d.array_layers >>
             r == min_dimensions(l.rest)
         IN  IF r.tag = "Some"
             THEN Some(<< Min(r.val[1], my_view_dims[1]),
                          Min(r.val[2], my_view_dims[2]),
                          Min(r.val[3], my_view_dims[3]) >>)
             ELSE Some(my_view_dims)

\* The record one sink.add_image_transition call (line 329) appends.
ImageTransition(image) ==
    [ image  |-> image,
      range1 |-> << 0, 1 >>,
      range2 |-> << 0, 1 >>,
      flag   |-> TRUE,
      layout |-> "General",
      stages |-> { "color_attachment_output", "late_fragment_tests" },
      access |-> { "color_attachment_read", "color_attachment_write",
                   "depth_stencil_attachment_read",
                   "depth_stencil_attachment_write" } ]

\* A plausible slip: delegating to the rest before emitting the own record.
RECURSIVE add_transition_RestFirst(_, _)
add_transition_RestFirst(l, s) ==
    IF l.tag = "EmptyAttachmentsList" THEN s
    ELSE Append(add_transition_RestFirst(l.rest, s), ImageTransition(l.first.parent))

RECURSIVE add_transition(_, _)
add_transition(l, s) ==
    IF l.tag = "EmptyAttachmentsList" THEN s
    ELSE add_transition(l.rest, Append(s, ImageTransition(l.first.parent)))

(* ---------------------------- Framebuffer ----------------------------- *)

Ok(x) == [tag |-> "Ok", val |-> x]

Err(e) == [tag |-> "Err", err |-> e]

Range(s) == { s[i] : i \in 1 .. Len(s) }

\* impl From<Error> / From<OomError> for FramebufferCreationError.
FromError(err) == [kind |-> "OomError", cause |-> err]

\* A plausible slip: the comparison made inclusive.
ExceedsLimits_Inclusive(dimensions, limits) ==
    dimensions[1] >= limits[1] \/ dimensions[2] >= limits[2] \/
    dimensions[3] >= limits[3]

\* A plausible slip: only the width compared.
ExceedsLimits_WidthOnly(dimensions, limits) ==
    dimensions[1] > limits[1]

\* The condition of lines 75-76.
ExceedsLimits(dimensions, limits) ==
    dimensions[1] > limits[1] \/ dimensions[2] > limits[2] \/
    dimensions[3] > limits[3]

\* vk::FramebufferCreateInfo, lines 108-118.
FramebufferCreateInfo(render_pass, ids, dimensions) ==
    [ renderPass      |-> render_pass,
      attachmentCount |-> Len(ids),
      pAttachments    |-> ids,
      width           |-> dimensions[1],
      height          |-> dimensions[2],
      layers          |-> dimensions[3] ]

\* A plausible slip: the device limits compared before the attachment check.
Framebuffer_new_LimitsFirst(render_pass, dimensions, attachments, check, create, output) ==
    IF ExceedsLimits(dimensions, Limits)
    THEN [ ret |-> Err(DimensionsTooLarge), trace |-> << "limits" >>,
           infos |-> None, created |-> FALSE ]
    ELSE IF check.tag = "Err"
    THEN [ ret |-> Err(check.err),
           trace |-> << "limits", "check_attachments_list" >>,
           infos |-> None, created |-> FALSE ]
    ELSE
    LET list == into_attachments_list(attachments)
        ids == raw_image_view_handles(list)
        info == FramebufferCreateInfo(render_pass, ids, dimensions)
        called == << "limits", "check_attachments_list", "CreateFramebuffer" >>
    IN  IF create # "Success"
        THEN [ ret |-> Err(FromError(create)), trace |-> called,
               infos |-> Some(info), created |-> FALSE ]
        ELSE [ ret |-> Ok([ device |-> "device", render_pass |-> render_pass,
                            framebuffer |-> output, dimensions |-> dimensions,
                            resources |-> list ]),
               trace |-> called, infos |-> Some(info), created |-> TRUE ]

\* A plausible slip: the native object created before the limits are compared.
Framebuffer_new_CreateFirst(render_pass, dimensions, attachments, check, create, output) ==
    IF check.tag = "Err"
    THEN [ ret |-> Err(check.err), trace |-> << "check_attachments_list" >>,
           infos |-> None, created |-> FALSE ]
    ELSE
    LET list == into_attachments_list(attachments)
        ids == raw_image_view_handles(list)
        info == FramebufferCreateInfo(render_pass, ids, dimensions)
        called == << "check_attachments_list", "CreateFramebuffer", "limits" >>
    IN  IF create # "Success"
        THEN [ ret |-> Err(FromError(create)),
               trace |-> << "check_attachments_list", "CreateFramebuffer" >>,
               infos |-> Some(info), created |-> FALSE ]
        ELSE IF ExceedsLimits(dimensions, Limits)
        THEN [ ret |-> Err(DimensionsTooLarge), trace |-> called,
               infos |-> Some(info), created |-> TRUE ]
        ELSE [ ret |-> Ok([ device |-> "device", render_pass |-> render_pass,
                            framebuffer |-> output, dimensions |-> dimensions,
                            resources |-> list ]),
               trace |-> called, infos |-> Some(info), created |-> TRUE ]

\* Framebuffer::new, lines 56-133.  check is what check_attachments_list
\* returns, create what vk.CreateFramebuffer returns if it is called, output
\* the handle it writes on success.  The result holds the value returned,
\* the collaborator calls made in order, the create info if one was built,
\* and whether a native handle was allocated.
Framebuffer_new(render_pass, dimensions, attachments, check, create, output) ==
    IF check.tag = "Err"
    THEN [ ret |-> Err(check.err), trace |-> << "check_attachments_list" >>,
           infos |-> None, created |-> FALSE ]
    ELSE
    LET list == into_attachments_list(attachments)
    IN  IF ExceedsLimits(dimensions, Limits)
        THEN [ ret |-> Err(DimensionsTooLarge),
               trace |-> << "check_attachments_list", "limits" >>,
               infos |-> None, created |-> FALSE ]
        ELSE
        LET ids == raw_image_view_handles(list)
            info == FramebufferCreateInfo(render_pass, ids, dimensions)
            called == << "check_attachments_list", "limits", "CreateFramebuffer" >>
        IN  IF create # "Success"
            THEN [ ret |-> Err(FromError(create)), trace |-> called,
                   infos |-> Some(info), created |-> FALSE ]
            ELSE [ ret |-> Ok([ device |-> "device", render_pass |-> render_pass,
                                framebuffer |-> output, dimensions |-> dimensions,
                                resources |-> list ]),
                   trace |-> called, infos |-> Some(info), created |-> TRUE ]

\* Accessors, lines 145-165.
dimensions(self) == self.dimensions

width(self) == self.dimensions[1]

height(self) == self.dimensions[2]

layers(self) == self.dimensions[3]

\* The render pass descriptors a framebuffer may be compared with.
RenderPassDescs == { "rpA", "rpB" }

\* RenderPassCompatible::is_compatible_with of the descriptors.
desc_is_compatible_with(a, b) == a = b

\* Framebuffer::is_compatible_with, lines 137-141.
is_compatible_with(self, render_pass) ==
    desc_is_compatible_with(self.render_pass, render_pass)

(* ------------------------ reference counting -------------------------- *)

\* Dropping one Arc<RenderPass>: the last one destroys the render pass,
\* which gives up the render pass's Arc<Device>.
ReleaseRenderPass(w) ==
    IF w.rpStrong = 1
    THEN [w EXCEPT !.rpStrong = 0, !.deviceStrong = @ - 1]
    ELSE [w EXCEPT !.rpStrong = @ - 1]

\* Dropping one Arc<Device>.
ReleaseDevice(w) == [w EXCEPT !.deviceStrong = @ - 1]

\* Drop::drop, lines 208-213: vk.DestroyFramebuffer through self.device.
DestroyFramebuffer(w, self) ==
    [w EXCEPT !.native = Append(@, [ op |-> "DestroyFramebuffer",
                                     handle |-> self.framebuffer,
                                     deviceStrong |-> w.deviceStrong ])]

\* The fields dropped in declaration order (lines 45-49): device, render_pass.
ReleaseFields(w) == ReleaseRenderPass(ReleaseDevice(w))

\* A plausible slip: the fields released before the native handle.
DropFramebuffer_FieldsFirst(w, self) == DestroyFramebuffer(ReleaseFields(w), self)

\* A plausible slip: the native handle never released.
DropFramebuffer_Leak(w, self) == ReleaseFields(w)

\* The last Arc<Framebuffer> dropped: Drop::drop, then the fields.
DropFramebuffer(w, self) == ReleaseFields(DestroyFramebuffer(w, self))

World == [ deviceStrong |-> deviceStrong, rpStrong |-> rpStrong, native |-> native ]

(* ------------------------------ actions ------------------------------- *)

Init ==
    /\ fb = None
    /\ strong = 0
    /\ userDevice = TRUE
    /\ userRp = TRUE
    /\ rpStrong = 1
    /\ deviceStrong = 2
    /\ calls = 0
    /\ args = None
    /\ ret = None
    /\ trace = << >>
    /\ infos = None
    /\ native = << >>
    /\ sink = << >>
    /\ sinkCalls = 0
    /\ lastRead = None
    /\ tuple = << >>
    /\ alist = None

\* A call of Framebuffer::new with a clone of the caller's Arc<RenderPass>.
\* The function's own device clone (line 62) and the render pass it was
\* given are kept by the framebuffer on success and dropped on an error.
\* create is what the driver answers if vk.CreateFramebuffer is called; a
\* call that does not reach it is explored with the answer "Success" only.
FramebufferNew ==
    /\ calls < MaxCalls
    /\ fb = None
    /\ userRp
    /\ \E dims \in DimensionsInputs, attachments \in NewAttachmentTuples,
          check \in CheckOutcomes, create \in CreateOutcomes :
          LET o == Framebuffer_new("rpA", dims, attachments, check, create, calls + 1)
              reached == "CreateFramebuffer" \in Range(o.trace)
          IN  /\ reached \/ create = "Success"
              /\ args' = [ dimensions |-> dims, attachments |-> attachments,
                           check |-> check,
                           create |-> create ]
              /\ ret' = o.ret
              /\ trace' = o.trace
              /\ infos' = o.infos
              /\ native' = IF o.created
                           THEN Append(native, [ op |-> "CreateFramebuffer",
                                                 handle |-> calls + 1 ])
                           ELSE native
              /\ IF o.ret.tag = "Ok"
                 THEN /\ fb' = Some(o.ret.val)
                      /\ strong' = 1
                      /\ deviceStrong' = deviceStrong + 1
                      /\ rpStrong' = rpStrong + 1
                 ELSE UNCHANGED << fb, strong, deviceStrong, rpStrong >>
    /\ calls' = calls + 1
    /\ lastRead' = None
    /\ UNCHANGED << userDevice, userRp, sink, sinkCalls, tuple, alist >>

\* Arc::clone of the framebuffer.
FramebufferClone ==
    /\ fb.tag = "Some"
    /\ strong < MaxRefs
    /\ strong' = strong + 1
    /\ UNCHANGED << fb, userDevice, userRp, rpStrong, deviceStrong, calls, args,
                    ret, trace, infos, native, sink, sinkCalls, lastRead,
                    tuple, alist >>

\* One Arc<Framebuffer> dropped; the last one runs Drop for Framebuffer.
\* A CommandsListSink<'a> borrows the framebuffer for 'a (line 201), so it
\* and what was read through the framebuffer are gone by the last drop.
FramebufferDropRef ==
    /\ fb.tag = "Some"
    /\ IF strong > 1
       THEN /\ strong' = strong - 1
            /\ UNCHANGED << fb, rpStrong, deviceStrong, native, sink, sinkCalls,
                            lastRead >>
       ELSE LET w == DropFramebuffer(World, fb.val)
            IN  /\ strong' = 0
                /\ fb' = None
                /\ rpStrong' = w.rpStrong
                /\ deviceStrong' = w.deviceStrong
                /\ native' = w.native
                /\ sink' = << >>
                /\ sinkCalls' = 0
                /\ lastRead' = None
    /\ UNCHANGED << userDevice, userRp, calls, args, ret, trace, infos, tuple,
                    alist >>

\* The caller drops its own Arc<Device>.
DropUserDevice ==
    /\ userDevice
    /\ userDevice' = FALSE
    /\ deviceStrong' = ReleaseDevice(World).deviceStrong
    /\ UNCHANGED << fb, strong, userRp, rpStrong, calls, args, ret, trace, infos,
                    native, sink, sinkCalls, lastRead, tuple, alist >>

\* The caller drops its own Arc<RenderPass>.
DropUserRenderPass ==
    /\ userRp
    /\ userRp' = FALSE
    /\ rpStrong' = ReleaseRenderPass(World).rpStrong
    /\ deviceStrong' = ReleaseRenderPass(World).deviceStrong
    /\ UNCHANGED << fb, strong, userDevice, calls, args, ret, trace, infos,
                    native, sink, sinkCalls, lastRead, tuple, alist >>

\* dimensions(), width(), height() or layers() called on the framebuffer.
FramebufferRead ==
    /\ fb.tag = "Some"
    /\ \E fn \in { "dimensions", "width", "height", "layers" } :
          lastRead' = [ fn |-> fn,
                        val |-> CASE fn = "dimensions" -> dimensions(fb.val)
                                  [] fn = "width" -> width(fb.val)
                                  [] fn = "height" -> height(fb.val)
                                  [] fn = "layers" -> layers(fb.val) ]
    /\ UNCHANGED << fbVars, sink, sinkCalls, tuple, alist >>

\* is_compatible_with called on the framebuffer.
FramebufferIsCompatibleWith ==
    /\ fb.tag = "Some"
    /\ \E render_pass \in RenderPassDescs :
          lastRead' = [ fn |-> "is_compatible_with", arg |-> render_pass,
                        val |-> is_compatible_with(fb.val, render_pass) ]
    /\ UNCHANGED << fbVars, sink, sinkCalls, tuple, alist >>

\* FramebufferRef::add_transition, lines 201-203.
FramebufferAddTransition ==
    /\ fb.tag = "Some"
    /\ sinkCalls < MaxTransitionCalls
    /\ sink' = add_transition(fb.val.resources, sink)
    /\ sinkCalls' = sinkCalls + 1
    /\ UNCHANGED << fbVars, lastRead, tuple, alist >>

Next ==
    \/ FramebufferNew
    \/ FramebufferClone
    \/ FramebufferDropRef
    \/ DropUserDevice
    \/ DropUserRenderPass
    \/ FramebufferRead
    \/ FramebufferIsCompatibleWith
    \/ FramebufferAddTransition

Spec == Init /\ [][Next]_vars

(* ----------------------- the list methods alone ----------------------- *)

ListInit ==
    /\ fb = None
    /\ strong = 0
    /\ userDevice = TRUE
    /\ userRp = TRUE
    /\ rpStrong = 1
    /\ deviceStrong = 2
    /\ calls = 0
    /\ args = None
    /\ ret = None
    /\ trace = << >>
    /\ infos = None
    /\ native = << >>
    /\ sink = << >>
    /\ sinkCalls = 0
    /\ lastRead = None
    /\ tuple \in AttachmentTuples
    /\ alist = None

\* IntoAttachmentsList::into_attachments_list on the tuple.
IntoAttachmentsList ==
    /\ alist = None
    /\ alist' = Some(into_attachments_list(tuple))
    /\ UNCHANGED << fbVars, sink, sinkCalls, lastRead, tuple >>

\* AttachmentsList::raw_image_view_handles on the converted list.
ListRawImageViewHandles ==
    /\ alist.tag = "Some"
    /\ lastRead' = [ fn |-> "raw_image_view_handles",
                     val |-> raw_image_view_handles(alist.val) ]
    /\ UNCHANGED << fbVars, sink, sinkCalls, tuple, alist >>

\* AttachmentsList::min_dimensions on the converted list.
ListMinDimensions ==
    /\ alist.tag = "Some"
    /\ lastRead' = [ fn |-> "min_dimensions", val |-> min_dimensions(alist.val) ]
    /\ UNCHANGED << fbVars, sink, sinkCalls, tuple, alist >>

\* AttachmentsList::add_transition on the converted list.
ListAddTransition ==
    /\ alist.tag = "Some"
    /\ sinkCalls < MaxTransitionCalls
    /\ sink' = add_transition(alist.val, sink)
    /\ sinkCalls' = sinkCalls + 1
    /\ UNCHANGED << fbVars, lastRead, tuple, alist >>

ListNext ==
    \/ IntoAttachmentsList
    \/ ListRawImageViewHandles
    \/ ListMinDimensions
    \/ ListAddTransition

ListSpec == ListInit /\ [][ListNext]_vars

(* ------------------------------- claims ------------------------------- *)

\* Some attachment's parent image is smaller than the request on an axis.
SomeAttachmentSmaller(attachments, dims) ==
    \E i \in 1 .. Len(attachments) :
        LET d == Images[attachments[i].parent]
        IN  d.width < dims[1] \/ d.height < dims[2] \/ d.array_layers < dims[3]

\* Every axis of the request is within the device limit of that axis.
WithinLimits(dims) == \A k \in 1 .. 3 : dims[k] <= Limits[k]

\* Handles allocated by vk.CreateFramebuffer and not yet destroyed.
Created == { native[i].handle : i \in { j \in 1 .. Len(native) : native[j].op = "CreateFramebuffer" } }

Destroys(h) ==
    Cardinality({ i \in 1 .. Len(native) :
                    native[i].op = "DestroyFramebuffer" /\ native[i].handle = h })

LiveHandles == { h \in Created : Destroys(h) = 0 }

\* C1: a call of Framebuffer::new whose attachments pass the render pass's
\* check and whose dimensions are within the device limits, but with an
\* attachment whose parent image is smaller than the request on some axis,
\* returns Err(AttachmentTooSmall) (stated here for requests of at least
\* 1 on every axis for which the driver would create the framebuffer, as in
\* tests::attachment_too_small).
C1_AttachmentTooSmall ==
    ( /\ calls > 0
      /\ args.check.tag = "Ok"
      /\ WithinLimits(args.dimensions)
      /\ \A k \in 1 .. 3 : args.dimensions[k] >= 1
      /\ args.create = "Success"
      /\ SomeAttachmentSmaller(args.attachments, args.dimensions) )
    => ret = Err(AttachmentTooSmall)

\* C2 as stated: a call of Framebuffer::new with an axis of the request
\* strictly above the device limit returns Err(DimensionsTooLarge) whatever
\* the attachment collection is.
C2_Original ==
    ( /\ calls > 0
      /\ \E k \in 1 .. 3 : args.dimensions[k] > Limits[k] )
    => ret = Err(DimensionsTooLarge)

\* C2 amended: a call of Framebuffer::new whose attachments pass the render
\* pass's check and with an axis of the request strictly above the device
\* limit returns Err(DimensionsTooLarge), whatever the attachments and the
\* other axes are.
C2_DimensionsTooLarge ==
    ( /\ calls > 0
      /\ args.check.tag = "Ok"
      /\ \E k \in 1 .. 3 : args.dimensions[k] > Limits[k] )
    => ( ret = Err(DimensionsTooLarge) /\ fb = None )

C2_Witness ==
    /\ calls > 0
    /\ args.check.tag = "Ok"
    /\ args.dimensions[1] <= Limits[1]
    /\ args.dimensions[2] <= Limits[2]
    /\ args.dimensions[3] > Limits[3]
    /\ Len(args.attachments) > 0
    /\ ret = Err(DimensionsTooLarge)

\* C3: the native handle of a framebuffer is released by DestroyFramebuffer
\* exactly once: not while a reference to the framebuffer is live, once the
\* last reference is dropped, never twice, and at a moment when the device
\* is alive (its strong count, which still includes the framebuffer's own
\* reference, is positive).
C3_ReleasedExactlyOnce ==
    /\ (fb.tag = "Some") <=> (strong >= 1)
    /\ fb.tag = "Some" => ( /\ fb.val.framebuffer \in Created
                            /\ Destroys(fb.val.framebuffer) = 0
                            /\ deviceStrong >= 1 )
    /\ \A h \in Created :
          IF fb.tag = "Some" /\ fb.val.framebuffer = h
          THEN Destroys(h) = 0
          ELSE Destroys(h) = 1
    /\ \A i \in 1 .. Len(native) :
          native[i].op = "DestroyFramebuffer" =>
              /\ native[i].deviceStrong >= 1
              /\ \E j \in 1 .. (i - 1) :
                    /\ native[j].op = "CreateFramebuffer"
                    /\ native[j].handle = native[i].handle

C3_Witness ==
    /\ fb = None
    /\ ~userDevice
    /\ ~userRp
    /\ deviceStrong = 0
    /\ \E i \in 1 .. Len(native) :
          /\ native[i].op = "DestroyFramebuffer"
          /\ native[i].deviceStrong >= 1

\* C4: a call of Framebuffer::new issues CreateFramebuffer at most once, and
\* only after the attachment check and the limit check have both passed;
\* when it returns the error of either check no native handle has been
\* allocated and none remains to be released.
C4_AllOrNothing ==
    calls > 0 =>
        /\ Cardinality({ i \in 1 .. Len(trace) : trace[i] = "CreateFramebuffer" }) <= 1
        /\ \A i \in 1 .. Len(trace) :
              trace[i] = "CreateFramebuffer" =>
                  /\ args.check.tag = "Ok"
                  /\ WithinLimits(args.dimensions)
                  /\ \E j \in 1 .. (i - 1) : trace[j] = "check_attachments_list"
                  /\ \E j \in 1 .. (i - 1) : trace[j] = "limits"
        /\ ( args.check.tag = "Err" \/ ~WithinLimits(args.dimensions) ) =>
              /\ ret.tag = "Err"
              /\ "CreateFramebuffer" \notin Range(trace)
              /\ infos = None
              /\ fb = None
              /\ LiveHandles = { }

C4_Witness ==
    /\ calls > 0
    /\ args.check.tag = "Ok"
    /\ ~WithinLimits(args.dimensions)
    /\ ret = Err(DimensionsTooLarge)
    /\ trace = << "check_attachments_list", "limits" >>

C6_HandlesInOrder ==
    ( lastRead # None /\ lastRead.fn = "raw_image_view_handles" )
    => /\ Len(lastRead.val) = Len(tuple)
       /\ \A i \in 1 .. Len(tuple) : lastRead.val[i] = tuple[i].handle

C6_Witness ==
    /\ lastRead # None
    /\ lastRead.fn = "raw_image_view_handles"
    /\ Len(tuple) >= 2
    /\ tuple[1] # tuple[2]
    /\ lastRead.val[1] = tuple[1].handle

\* The parent-image dimensions of a view as (width, height, array layers).
ParentDims(v) ==
    << Images[v.parent].width, Images[v.parent].height, Images[v.parent].array_layers >>

\* The least element of a non-empty set of numbers.
Least(S) == CHOOSE m \in S : \A x \in S : m <= x

C9_CheckErrorFirst ==
    ( calls > 0 /\ args.check.tag = "Err" )
    => /\ ret = Err(args.check.err)
       /\ ret # Err(DimensionsTooLarge)
       /\ trace = << "check_attachments_list" >>

C9_Witness ==
    /\ calls > 0
    /\ args.check.tag = "Err"
    /\ ~WithinLimits(args.dimensions)
    /\ ret = Err(AttachmentTooSmall)

\* C10: every framebuffer Framebuffer::new returns has width, height and
\* layers of at least 1.
C10_DimensionsAtLeastOne ==
    ( calls > 0 /\ ret.tag = "Ok" )
    => \A k \in 1 .. 3 : ret.val.dimensions[k] >= 1

=============================================================================
